---- MODULE Spec2Model ----
(***************************************************************************)
(* Multi-day tour planning (vrptur.py) over the cost matrix built by       *)
(* vrptur_pois_data_extractor.py.                                          *)
(*                                                                         *)
(* Numbers.  The program computes with floats; the model computes with     *)
(* integers in fixed units chosen so that every quotient of the program    *)
(* is exact: a distance is a number of DistScale-ths of a kilometre, a     *)
(* duration a number of DurScale-ths of a minute (60 * DurScale is         *)
(* divisible by DistScale * speed for every speed of TRANSPORT_MODES, and  *)
(* DurScale by 2 for the halved visiting times).                           *)
(*                                                                         *)
(* Objects.  Python dictionaries are objects: the measurement dictionary   *)
(* maps a PoI id to the address of an inner dictionary, and heap maps an   *)
(* address to that dictionary's content, so that dict(measurement), which  *)
(* copies the outer dictionary only, shares the inner ones.                *)
(***************************************************************************)
EXTENDS Integers, Sequences, FiniteSets, TLC

\* ------------------------------------------------------------------ bounds
\* The largest number of PoIs in the loaded file.
MaxPois == 3
\* The number of candidate hotels of create_hotels used by a run.
NumHotels == 2

\* ------------------------------------------------------------------- units
DistScale == 5 * 2
DurScale == 17 * 100

\* -------------------------------------------- vrptur_pois_data_extractor.py
TRANSPORT_MODES ==
    [walk |-> 6, bicycle |-> 25, car |-> 50, carInHighway |-> 85,
     bus |-> 50, busInHighway |-> 85]

MAX_WALK_DISTANCE == 2
MAX_URBAN_DISTANCE == 20
MINUTES_PER_HOUR == 60
DEFAULT_VISITING_TIME == 30

oid(pi) ==
    pi["_id"]["$oid"]

is_equals(pi, pj) ==
    oid(pi) = oid(pj)

make_skinny_poi(_id, name, address, lat, lng) ==
    [_id |-> ("$oid" :> _id), label |-> name,
     location |-> [address |-> address], coordinates |-> <<lng, lat>>]

Abs(x) ==
    IF x < 0 THEN -x ELSE x

\* The great-circle distance of the haversine package, on the local tangent
\* plane of the city: coordinates are offsets in DistScale-ths of a kilometre,
\* and the distance is the Euclidean one, rounded down to a whole unit.  It is
\* 0 exactly for equal coordinates and it is symmetric, as the package's is.
haversine_distance(pi_lng, pi_lat, pj_lng, pj_lat) ==
    LET dx == Abs(pj_lng - pi_lng)
        dy == Abs(pj_lat - pi_lat)
        sq == dx * dx + dy * dy
        lo == IF dx > dy THEN dx ELSE dy
    IN  CHOOSE r \in lo..(dx + dy) : r * r <= sq /\ (r + 1) * (r + 1) > sq

\* distance(pi, pj) with smart = False, as every caller of the pipeline has it.
distance(pi, pj) ==
    haversine_distance(pi.coordinates[1], pi.coordinates[2],
                       pj.coordinates[1], pj.coordinates[2])

\* The mode selection with the short distances walked.
AutoMode_walk_short(dist, auto_threshold, max_urban_threshold) ==
    IF dist <= auto_threshold * DistScale
    THEN "walk"
    ELSE IF dist <= max_urban_threshold * DistScale
         THEN "car"
         ELSE "carInHighway"

\* The mode selection of duration() for mode = "auto"; dist is in
\* DistScale-ths of a kilometre, the thresholds are in kilometres.
AutoMode(dist, auto_threshold, max_urban_threshold) ==
    IF dist <= auto_threshold * DistScale
    THEN IF dist <= max_urban_threshold * DistScale
         THEN "car"
         ELSE "carInHighway"
    ELSE "walk"

\* pi.get("visitingTime", DEFAULT_VISITING_TIME)
visiting_time(pi) ==
    IF "visitingTime" \in DOMAIN pi THEN pi.visitingTime ELSE DEFAULT_VISITING_TIME

\* (dist / speed) * MINUTES_PER_HOUR, in DurScale-ths of a minute.
travel_time(dist, speed) ==
    (dist * MINUTES_PER_HOUR * DurScale) \div (DistScale * speed)

\* The duration with the visiting times added whole, not halved.
duration_whole_visits(pi, pj) ==
    LET dist == distance(pi, pj)
        speed == TRANSPORT_MODES[AutoMode(dist, MAX_WALK_DISTANCE, MAX_URBAN_DISTANCE)]
    IN  IF dist = 0
        THEN 0
        ELSE travel_time(dist, speed)
             + visiting_time(pi) * DurScale + visiting_time(pj) * DurScale

\* duration(pi, pj) with mode = "auto" and the default thresholds.
duration(pi, pj) ==
    LET dist == distance(pi, pj)
        speed == TRANSPORT_MODES[AutoMode(dist, MAX_WALK_DISTANCE, MAX_URBAN_DISTANCE)]
        pi_visiting_time == visiting_time(pi)
        pj_visiting_time == visiting_time(pj)
    IN  IF dist = 0
        THEN 0
        ELSE travel_time(dist, speed)
             + (pi_visiting_time * DurScale) \div 2
             + (pj_visiting_time * DurScale) \div 2

measure(source, target) ==
    <<distance(source, target), duration(source, target)>>

\* The ids of a PoI list.
Oids(pois) ==
    {oid(pois[i]) : i \in 1..Len(pois)}

\* The PoI of a list with a given id (the last one, as a dictionary keeps the
\* last value written under a key).
PoiOf(pois, id) ==
    pois[CHOOSE i \in 1..Len(pois) :
            /\ oid(pois[i]) = id
            /\ \A j \in (i + 1)..Len(pois) : oid(pois[j]) # id]

measure_all(source, pois_target) ==
    [id \in Oids(pois_target) |->
        LET target == PoiOf(pois_target, id)
        IN  IF ~is_equals(source, target)
            THEN measure(source, target)
            ELSE <<0, 0>>]

\* extract_from_list(pois): the list, and the measurement dictionary as an
\* outer dictionary of addresses with the heap holding the inner dictionaries;
\* the inner dictionary of the i-th PoI is allocated at address i.
extract_from_list(pois) ==
    [pois |-> pois,
     measurement |-> [id \in Oids(pois) |->
                        CHOOSE i \in 1..Len(pois) :
                            /\ oid(pois[i]) = id
                            /\ \A j \in (i + 1)..Len(pois) : oid(pois[j]) # id],
     heap |-> [a \in 1..Len(pois) |-> measure_all(pois[a], pois)]]

\* ---------------------------------------------------------------- vrptur.py
HOTEL_ID == "hotel"

\* create_hotels(): the candidate hotels, every one under the id HOTEL_ID, with
\* the coordinates of the source as offsets from (lat -3.72, lng -38.51).
AllHotels ==
    << make_skinny_poi(HOTEL_ID, "Carmel Magna Praia Hotel", "Av. Historiador Raimundo Girao", -3, 4),
       make_skinny_poi(HOTEL_ID, "Hotel Gran Marquise", "Av. Beira Mar", -4, 27),
       make_skinny_poi(HOTEL_ID, "Crocobeach Hotel", "Av. Clovis Arrais Maia", -19, 61),
       make_skinny_poi(HOTEL_ID, "Gran Mareiro Hotel", "Rua Oswaldo Araujo", -22, 62),
       make_skinny_poi(HOTEL_ID, "Hotel Sonata De Iracema", "Av. Beira Mar", 0, -3) >>

create_hotels ==
    SubSeq(AllHotels, 1, IF NumHotels < Len(AllHotels) THEN NumHotels ELSE Len(AllHotels))

\* days_range of main().
days_range ==
    <<2, 3, 4, 5>>

\* The records a data file may hold, one JSON object per line: a PoI at the
\* first hotel's coordinates, one a kilometre and a half away with a visiting time, one a
\* walk away, one beyond the urban threshold, and one with a long visit.
FileRecords ==
    << [_id |-> ("$oid" :> "a"), label |-> "A", coordinates |-> <<4, -3>>],
       [_id |-> ("$oid" :> "b"), label |-> "B", coordinates |-> <<4, 12>>, visitingTime |-> 45],
       [_id |-> ("$oid" :> "c"), label |-> "C", coordinates |-> <<60, -20>>],
       [_id |-> ("$oid" :> "d"), label |-> "D", coordinates |-> <<4, 207>>],
       [_id |-> ("$oid" :> "e"), label |-> "E", coordinates |-> <<-20, 30>>, visitingTime |-> 240] >>

RECURSIVE LinesOf(_, _)
\* The records of FileRecords at the positions S, in file order.
LinesOf(S, from) ==
    IF from > Len(FileRecords)
    THEN <<>>
    ELSE IF from \in S
         THEN <<FileRecords[from]>> \o LinesOf(S, from + 1)
         ELSE LinesOf(S, from + 1)

\* create_data_array(): extract_from_file of some data file of at most MaxPois
\* lines.
DataArrays ==
    {extract_from_list(LinesOf(S, 1)) :
        S \in {T \in SUBSET (1..Len(FileRecords)) : Cardinality(T) <= MaxPois}}

\* A measurement dictionary with its inner dictionaries read through the heap.
Resolve(m, h) ==
    [id \in DOMAIN m |-> h[m[id]]]

\* d[k] = v on a dictionary.
DictSet(d, k, v) ==
    [x \in DOMAIN d \cup {k} |-> IF x = k THEN v ELSE d[x]]

\* d[k] = v only where k is not yet a key.
DictSetDefault(d, k, v) ==
    IF k \in DOMAIN d THEN d ELSE DictSet(d, k, v)

\* ------------------------------------------------------------- set_hotel
RECURSIVE set_hotel_loop_stale(_, _, _, _, _, _)
\* The loop writing the hotel's entry only where a PoI has none yet.
set_hotel_loop_stale(i, hotel, copy_pois, copy_measurement, h, hotel_dict) ==
    IF i > Len(copy_pois)
    THEN [heap |-> h, hotel_dict |-> hotel_dict]
    ELSE LET poi == copy_pois[i]
             poi_id == oid(poi)
             m == measure(poi, hotel)
             a == copy_measurement[poi_id]
             h2 == [h EXCEPT ![a] = DictSetDefault(h[a], HOTEL_ID, m)]
         IN  set_hotel_loop_stale(i + 1, hotel, copy_pois, copy_measurement, h2,
                                  DictSet(hotel_dict, poi_id, m))

RECURSIVE set_hotel_loop(_, _, _, _, _, _)
\* The loop "for poi in copy_pois" of set_hotel, from the i-th PoI on:
\* copy_measurement[poi_id] is the inner dictionary at address a, the one the
\* base dictionary holds too, and the assignment writes into it.
set_hotel_loop(i, hotel, copy_pois, copy_measurement, h, hotel_dict) ==
    IF i > Len(copy_pois)
    THEN [heap |-> h, hotel_dict |-> hotel_dict]
    ELSE LET poi == copy_pois[i]
             poi_id == oid(poi)
             m == measure(poi, hotel)
             a == copy_measurement[poi_id]
             h2 == [h EXCEPT ![a] = DictSet(h[a], HOTEL_ID, m)]
         IN  set_hotel_loop(i + 1, hotel, copy_pois, copy_measurement, h2,
                            DictSet(hotel_dict, poi_id, m))

\* set_hotel(hotel, pois, measurement) on the heap h, with the new hotel_dict
\* allocated at the address fresh: the returned list, the returned outer
\* dictionary, and the heap after the call.
set_hotel(hotel, pois, measurement, h, fresh) ==
    LET copy_pois == pois
        copy_measurement == measurement
        done == set_hotel_loop(1, hotel, copy_pois, copy_measurement, h,
                               (HOTEL_ID :> <<0, 0>>))
    IN  [pois |-> <<hotel>> \o copy_pois,
         measurement |-> DictSet(copy_measurement, HOTEL_ID, fresh),
         heap |-> DictSet(done.heap, fresh, done.hotel_dict)]

\* -------------------------------------------- CreateMeasurementCallback
\* __init__: the matrix over node numbers 0..size-1, read from the measurement
\* dictionary (here already read through the heap) by the PoIs' ids.
CreateMeasurementCallback(pois, measurement) ==
    LET size == Len(pois)
    IN  [from_node \in 0..(size - 1) |->
            [to_node \in 0..(size - 1) |->
                measurement[oid(pois[from_node + 1])][oid(pois[to_node + 1])]]]

distance_callback(matrix, from_node, to_node) ==
    matrix[from_node][to_node][1]

duration_callback(matrix, from_node, to_node) ==
    matrix[from_node][to_node][2]

\* ------------------------------------------------------------ Tour, Trip
Tour(days) ==
    [days |-> days, trips |-> <<>>, duration |-> 0]

Trip(day) ==
    [day |-> day, pois |-> <<>>, duration |-> 0, distance |-> 0]

add_poi(trip, poi) ==
    [trip EXCEPT !.pois = Append(@, poi)]

add_duration(trip, d) ==
    [trip EXCEPT !.duration = @ + d]

add_distance(trip, d) ==
    [trip EXCEPT !.distance = @ + d]

RECURSIVE Tour_distance_from(_, _, _)
\* The loop of Tour.distance(): sum += t.duration for each trip.
Tour_distance_from(trips, i, sum) ==
    IF i > Len(trips)
    THEN sum
    ELSE Tour_distance_from(trips, i + 1, sum + trips[i].duration)

\* Tour.distance()
Tour_distance(tour) ==
    Tour_distance_from(tour.trips, 1, 0)

\* ------------------------------------------- the routing model (ortools)
\* RoutingModel(num_pois, num_days, depot): the nodes 0..num_pois-1 are their
\* own indices, the depot's index is the start of vehicle 0, the other
\* vehicles' starts follow the nodes and the vehicles' ends follow the starts.
RoutingModel(num_pois, num_days, depot) ==
    [nodes |-> num_pois, vehicles |-> num_days, depot |-> depot]

Size(routing) ==
    routing.nodes + routing.vehicles - 1

Start(routing, vehicle) ==
    IF vehicle = 0 THEN routing.depot ELSE routing.nodes + vehicle - 1

End(routing, vehicle) ==
    Size(routing) + vehicle

IsEnd(routing, index) ==
    index >= Size(routing)

IndexToNode(routing, index) ==
    IF index < routing.nodes THEN index ELSE routing.depot

\* A day of ten hours.
max_day_duration_longer ==
    480 + 120

\* max_day_duration of run_vrptur, in minutes.
max_day_duration ==
    480

\* The orders of the n nodes 1..n.
Perms(n) ==
    {p \in [1..n -> 1..n] : \A i, j \in 1..n : p[i] = p[j] => i = j}

\* The places at which an order of n nodes is cut into V consecutive routes.
Cuts(n, V) ==
    {c \in [1..(V - 1) -> 0..n] : \A i \in 1..(V - 2) : c[i] <= c[i + 1]}

\* One route per vehicle: every node other than the depot is on exactly one.
AllRoutes(n, V) ==
    {[v \in 1..V |->
        SubSeq(p, (IF v = 1 THEN 0 ELSE c[v - 1]) + 1, IF v = V THEN n ELSE c[v])] :
        p \in Perms(n), c \in Cuts(n, V)}

RECURSIVE PathCost(_, _, _)
\* The transits of the duration callback along a path of nodes, from its
\* i-th node on.
PathCost(matrix, path, i) ==
    IF i >= Len(path)
    THEN 0
    ELSE duration_callback(matrix, path[i], path[i + 1]) + PathCost(matrix, path, i + 1)

\* A route's cumul at its end: start cumul 0 plus the transits depot ->
\* route -> depot.
RouteCumul(routing, matrix, route) ==
    PathCost(matrix, <<routing.depot>> \o route \o <<routing.depot>>, 1)

RECURSIVE SumCumul(_, _, _, _)
SumCumul(routing, matrix, routes, v) ==
    IF v > Len(routes)
    THEN 0
    ELSE RouteCumul(routing, matrix, routes[v]) + SumCumul(routing, matrix, routes, v + 1)

\* The values of the NextVars of an assignment with the given routes.
NextOf(routing, routes) ==
    [index \in 0..(Size(routing) - 1) |->
        IF \E v \in 0..(routing.vehicles - 1) : Start(routing, v) = index
        THEN LET v == CHOOSE v \in 0..(routing.vehicles - 1) : Start(routing, v) = index
             IN  IF routes[v + 1] = <<>> THEN End(routing, v) ELSE routes[v + 1][1]
        ELSE LET v == CHOOSE v \in 0..(routing.vehicles - 1) :
                        \E k \in 1..Len(routes[v + 1]) : routes[v + 1][k] = index
                 k == CHOOSE k \in 1..Len(routes[v + 1]) : routes[v + 1][k] = index
             IN  IF k < Len(routes[v + 1]) THEN routes[v + 1][k + 1] ELSE End(routing, v)]

\* The assignment SolveWithParameters returns when it finds no solution.
NoAssignment ==
    [solved |-> FALSE]

\* What SolveWithParameters may return: no solution (the search is a
\* heuristic, so also when one exists), or an assignment of one path per
\* vehicle from the depot to the vehicle's end in which every other node is on
\* exactly one path and every path's cumul of the "Duration" dimension is
\* within the capacity; its objective is the sum of the arc costs, which are
\* the duration callback's values.
SolveWithParameters(routing, matrix, capacity) ==
    {NoAssignment} \cup
    {[solved |-> TRUE, routes |-> routes, next |-> NextOf(routing, routes),
      objective |-> SumCumul(routing, matrix, routes, 1)] :
        routes \in {r \in AllRoutes(routing.nodes - 1, routing.vehicles) :
                        \A v \in 1..routing.vehicles :
                            RouteCumul(routing, matrix, r[v]) <= capacity * DurScale}}

\* ------------------------------------------------------------ run_vrptur
RECURSIVE walk(_, _, _, _, _, _, _)
\* The loop "while not routing.IsEnd(index_next)" of run_vrptur.
walk(trip, index, index_next, routing, assignment, pois, matrix) ==
    IF IsEnd(routing, index_next)
    THEN [trip |-> trip, index |-> index, index_next |-> index_next]
    ELSE LET node_index == IndexToNode(routing, index)
             node_index_next == IndexToNode(routing, index_next)
             t1 == add_poi(trip, pois[node_index + 1])
             t2 == add_duration(t1, duration_callback(matrix, node_index, node_index_next))
             t3 == add_distance(t2, distance_callback(matrix, node_index, node_index_next))
         IN  walk(t3, index_next, assignment.next[index_next],
                  routing, assignment, pois, matrix)

\* The day's trip without the PoI of the last walked index.
decode_day_drop_last(day_nbr, routing, assignment, pois, matrix) ==
    LET index == Start(routing, day_nbr)
        index_next == assignment.next[index]
        w == walk(Trip(day_nbr), index, index_next, routing, assignment, pois, matrix)
        node_index == IndexToNode(routing, w.index)
        node_index_next == IndexToNode(routing, w.index_next)
        t2 == add_poi(w.trip, pois[node_index_next + 1])
        t3 == add_duration(t2, duration_callback(matrix, node_index, node_index_next))
    IN  add_distance(t3, distance_callback(matrix, node_index, node_index_next))

\* The body of "for day_nbr in range(num_days)": the day's trip.
decode_day(day_nbr, routing, assignment, pois, matrix) ==
    LET index == Start(routing, day_nbr)
        index_next == assignment.next[index]
        w == walk(Trip(day_nbr), index, index_next, routing, assignment, pois, matrix)
        node_index == IndexToNode(routing, w.index)
        node_index_next == IndexToNode(routing, w.index_next)
        t1 == add_poi(w.trip, pois[node_index + 1])
        t2 == add_poi(t1, pois[node_index_next + 1])
        t3 == add_duration(t2, duration_callback(matrix, node_index, node_index_next))
    IN  add_distance(t3, distance_callback(matrix, node_index, node_index_next))

RECURSIVE decode_days_skip_empty(_, _, _, _, _, _)
\* The trips of the vehicles that visit something only.
decode_days_skip_empty(day_nbr, num_days, routing, assignment, pois, matrix) ==
    IF day_nbr >= num_days
    THEN <<>>
    ELSE (IF IsEnd(routing, assignment.next[Start(routing, day_nbr)])
          THEN <<>>
          ELSE <<decode_day(day_nbr, routing, assignment, pois, matrix)>>)
         \o decode_days_skip_empty(day_nbr + 1, num_days, routing, assignment, pois, matrix)

RECURSIVE decode_days(_, _, _, _, _, _)
\* "for day_nbr in range(num_days)", from day_nbr on: the trips appended.
decode_days(day_nbr, num_days, routing, assignment, pois, matrix) ==
    IF day_nbr >= num_days
    THEN <<>>
    ELSE <<decode_day(day_nbr, routing, assignment, pois, matrix)>>
         \o decode_days(day_nbr + 1, num_days, routing, assignment, pois, matrix)

\* run_vrptur(pois, measurement, num_days), measurement read through the heap:
\* what the call may return and print, one outcome per answer of the solver.
\* An outcome holds the returned tour, the line printed (if any), whether
\* SolveWithParameters was called, and the assignment it returned.
run_vrptur(pois, measurement, num_days) ==
    LET depot == 0
        num_pois == Len(pois)
        tour == Tour(num_days)
    IN  IF num_pois > 0
        THEN LET routing == RoutingModel(num_pois, num_days, depot)
                 matrix == CreateMeasurementCallback(pois, measurement)
             IN  {IF assignment.solved
                  THEN [tour |-> [tour EXCEPT
                                    !.duration = assignment.objective,
                                    !.trips = decode_days(0, num_days, routing,
                                                          assignment, pois, matrix)],
                        printed |-> "",
                        solver_invoked |-> TRUE,
                        assignment |-> assignment]
                  ELSE [tour |-> tour,
                        printed |-> "No solution found for num_days",
                        solver_invoked |-> TRUE,
                        assignment |-> assignment] :
                  assignment \in SolveWithParameters(routing, matrix, max_day_duration)}
        ELSE {[tour |-> tour,
               printed |-> "Specify an instance (PoIs) greater than 0.",
               solver_invoked |-> FALSE,
               assignment |-> NoAssignment]}

\* ------------------------------------------------------------------ main
\* A name not yet bound.
None ==
    [none |-> TRUE]

VARIABLES
    pois,           \* main: the base PoI list
    measurement,    \* main: the base measurement dictionary (ids to addresses)
    heap,           \* the inner dictionaries, by address
    loaded,         \* what create_data_array returned, as it was then
    day_idx,        \* the position of "for num_days in days_range"
    hotel_idx,      \* the position of "for hotel in hotels"
    pc,             \* the next statement of main's loop body
    num_days,       \* main: loop variable
    hotel,          \* main: loop variable
    t_pois,         \* main: set_hotel's returned list
    t_measurement,  \* main: set_hotel's returned dictionary (ids to addresses)
    tour,           \* main: run_vrptur's returned tour
    assignment,     \* run_vrptur: what SolveWithParameters returned in the last call
    solver_invoked, \* whether the last run_vrptur called SolveWithParameters
    printed,        \* the line the last run_vrptur printed
    reported,       \* the duration and distance main printed last
    headers,        \* the number of "[[hotel = ..., num_days = ...]]" lines printed
    miss_seen       \* whether "No solution found" was printed so far

vars ==
    <<pois, measurement, heap, loaded, day_idx, hotel_idx, pc, num_days, hotel,
      t_pois, t_measurement, tour, assignment, solver_invoked, printed, reported,
      headers, miss_seen>>

hotels ==
    create_hotels

Init ==
    /\ \E data \in DataArrays :
        /\ pois = data.pois
        /\ measurement = data.measurement
        /\ heap = data.heap
        /\ loaded = [pois |-> data.pois,
                     measurement |-> Resolve(data.measurement, data.heap)]
    /\ day_idx = 1
    /\ hotel_idx = 1
    /\ pc = "set_hotel"
    /\ num_days = 0
    /\ hotel = None
    /\ t_pois = <<>>
    /\ t_measurement = <<>>
    /\ tour = None
    /\ assignment = NoAssignment
    /\ solver_invoked = FALSE
    /\ printed = ""
    /\ reported = None
    /\ headers = 0
    /\ miss_seen = FALSE

\* The loop heads and "t_pois, t_measurement = set_hotel(hotel, pois,
\* measurement)".  The new hotel_dict takes the address after the base's inner
\* dictionaries: the one of the previous iteration is unreachable once
\* t_measurement is rebound.  What the previous iteration left in tour and in
\* run_vrptur's locals is dead here (main rebinds tour before it reads it), and
\* the record of what was printed starts anew under the new header line.
SetHotel ==
    /\ pc = "set_hotel"
    /\ num_days' = days_range[day_idx]
    /\ hotel' = hotels[hotel_idx]
    /\ headers' = headers + 1
    /\ LET r == set_hotel(hotels[hotel_idx], pois, measurement, heap, Len(pois) + 1)
       IN  /\ t_pois' = r.pois
           /\ t_measurement' = r.measurement
           /\ heap' = r.heap
    /\ tour' = None
    /\ assignment' = NoAssignment
    /\ solver_invoked' = FALSE
    /\ printed' = ""
    /\ reported' = None
    /\ pc' = "run"
    /\ UNCHANGED <<pois, measurement, loaded, day_idx, hotel_idx, miss_seen>>

\* "tour = run_vrptur(t_pois, t_measurement, num_days)"
RunVrptur ==
    /\ pc = "run"
    /\ \E r \in run_vrptur(t_pois, Resolve(t_measurement, heap), num_days) :
        /\ tour' = r.tour
        /\ assignment' = r.assignment
        /\ solver_invoked' = r.solver_invoked
        /\ printed' = r.printed
        /\ miss_seen' = (miss_seen \/ (r.solver_invoked /\ ~r.assignment.solved))
    /\ pc' = "report"
    /\ UNCHANGED <<pois, measurement, heap, loaded, day_idx, hotel_idx, num_days,
                   hotel, t_pois, t_measurement, reported, headers>>

\* The step with the inner loop ending one hotel early.
AdvanceLoop_one_short(d, h) ==
    IF h + 1 < Len(hotels)
    THEN [day_idx |-> d, hotel_idx |-> h + 1]
    ELSE [day_idx |-> d + 1, hotel_idx |-> 1]

\* The step of the two nested loops to the next (num_days, hotel).
AdvanceLoop(d, h) ==
    IF h < Len(hotels)
    THEN [day_idx |-> d, hotel_idx |-> h + 1]
    ELSE [day_idx |-> d + 1, hotel_idx |-> 1]

\* The prints of tour.duration and tour.distance(), and the step to the next
\* combination.
Report ==
    /\ pc = "report"
    /\ reported' = [duration |-> tour.duration, distance |-> Tour_distance(tour)]
    /\ LET n == AdvanceLoop(day_idx, hotel_idx)
       IN  /\ day_idx' = n.day_idx
           /\ hotel_idx' = n.hotel_idx
           /\ pc' = IF n.day_idx > Len(days_range) THEN "done" ELSE "set_hotel"
    /\ UNCHANGED <<pois, measurement, heap, loaded, num_days, hotel, t_pois,
                   t_measurement, tour, assignment, solver_invoked, printed,
                   headers, miss_seen>>

Next ==
    \/ SetHotel
    \/ RunVrptur
    \/ Report

Spec ==
    Init /\ [][Next]_vars

\* ================================================================ claims
\* The matrix main holds after set_hotel, read through the heap.
TMatrix ==
    Resolve(t_measurement, heap)

\* The routing model of the last run_vrptur call.
TRouting ==
    RoutingModel(Len(t_pois), num_days, 0)

\* The nodes of vehicle v's path (v from 1), depot first and last.
PathOf(v) ==
    <<0>> \o assignment.routes[v] \o <<0>>

RECURSIVE SumOver(_, _, _)
\* The sum of f[i] for i from the i-th of 1..n on.
SumOver(f, i, n) ==
    IF i > n THEN 0 ELSE f[i] + SumOver(f, i + 1, n)

\* C1: every Tour run_vrptur returns has Tour.distance() equal to the sum of
\* its Trips' distances (both as numbers: DurScale-ths on the left,
\* DistScale-ths on the right).
C1_TourDistanceSumsTripDistances ==
    tour # None =>
        Tour_distance(tour) * DistScale
            = SumOver([i \in 1..Len(tour.trips) |-> tour.trips[i].distance],
                      1, Len(tour.trips)) * DurScale

\* C2: after any sequence of set_hotel calls of the batch loop, the base PoI
\* list and the base cost matrix, inner mappings included, are what
\* create_data_array returned.
C2_BaseDataUnchanged ==
    /\ pois = loaded.pois
    /\ Resolve(measurement, heap) = loaded.measurement

\* C3 as stated: when the solver returns no solution, run_vrptur returns no
\* Tour.
C3_NoTourOnMiss ==
    (solver_invoked /\ ~assignment.solved) => tour = None

\* C3 as amended: when the solver returns no solution, run_vrptur prints "No
\* solution found" and returns the Tour it constructed, with no Trips and
\* duration 0; main can report that Tour and step to the next combination, and
\* when the batch loop ends it has processed every combination of days_range x
\* hotels.
C3_EmptyTourOnMissAndBatchGoesOn ==
    /\ (solver_invoked /\ ~assignment.solved) =>
            /\ tour = [days |-> num_days, trips |-> <<>>, duration |-> 0]
            /\ printed = "No solution found for num_days"
    /\ (pc = "report" /\ solver_invoked /\ ~assignment.solved) => ENABLED Report
    /\ pc = "done" => headers = Len(days_range) * Len(hotels)

\* C3 witness: the batch has ended, its last combination was solved, and an
\* earlier one had no solution.
C3_Witness ==
    miss_seen /\ pc = "done" /\ assignment.solved

\* C4: with an empty loaded PoI set, every combination reports "nothing to
\* plan" and the solver is never invoked.
C4_EmptySetSkipsSolver ==
    (Len(pois) = 0 /\ pc = "report") =>
        /\ ~solver_invoked
        /\ printed = "Specify an instance (PoIs) greater than 0."

\* C5: in every Tour built from an assignment that satisfies the duration
\* dimension, every Trip's accumulated duration is at most 480 minutes.
C5_TripWithinCap ==
    assignment.solved =>
        \A v \in 1..Len(tour.trips) : tour.trips[v].duration <= 480 * DurScale

\* C5 witness: a Trip that takes the 480 minutes exactly.
C5_Witness ==
    /\ assignment.solved
    /\ \E v \in 1..Len(tour.trips) : tour.trips[v].duration = 480 * DurScale

\* C6: after every set_hotel call, in any sequence of calls with different
\* hotels, the returned list is the hotel followed by the base PoIs and the
\* returned matrix holds, for all p, q of the list, the pair (distance(p, q),
\* duration(p, q)) computed against this call's hotel, with (0, 0) for the
\* hotel itself and equal entries in both directions.
C6_MatrixCompleteAfterInsertion ==
    t_pois # <<>> =>
        /\ t_pois = <<hotel>> \o pois
        /\ HOTEL_ID \in DOMAIN TMatrix
        /\ HOTEL_ID \in DOMAIN TMatrix[HOTEL_ID]
        /\ TMatrix[HOTEL_ID][HOTEL_ID] = <<0, 0>>
        /\ \A i, j \in 1..Len(t_pois) :
            LET p == t_pois[i]
                q == t_pois[j]
            IN  /\ oid(p) \in DOMAIN TMatrix
                /\ oid(q) \in DOMAIN TMatrix[oid(p)]
                /\ TMatrix[oid(p)][oid(q)] = <<distance(p, q), duration(p, q)>>
                /\ oid(q) \in DOMAIN TMatrix
                /\ oid(p) \in DOMAIN TMatrix[oid(q)]
                /\ TMatrix[oid(p)][oid(q)] = TMatrix[oid(q)][oid(p)]

\* C6 witness: a later call with another hotel than the first, on base data
\* of two PoIs or more, has returned.
C6_Witness ==
    /\ headers >= 2
    /\ pc = "run"
    /\ hotel = hotels[2]
    /\ Len(pois) >= 2

\* The visiting time the claims give a PoI: its own, or 30 minutes.
ClaimVisiting(p) ==
    IF "visitingTime" \in DOMAIN p THEN p.visitingTime ELSE 30

\* The travel time the claims give a distance walked or driven at a speed in
\* km/h: (dist / speed) * 60 minutes.
ClaimTravel(dist, speed) ==
    (dist * 60 * DurScale) \div (DistScale * speed)

EmptyDays ==
    {v \in 1..num_days :
        assignment.next[Start(TRouting, v - 1)] = End(TRouting, v - 1)}

\* C8: when the day count exceeds the number of non-depot PoIs and the solver
\* returns a solution, the Tour has num_days Trips; every vehicle whose route
\* is start -> end has the Trip [depot, depot] with duration 0 and distance 0;
\* and Tour.duration is the sum of the other Trips' durations.
C8_EmptyDays ==
    (assignment.solved /\ num_days > Len(t_pois) - 1) =>
        /\ Len(tour.trips) = num_days
        /\ EmptyDays # {}
        /\ \A v \in EmptyDays :
            /\ tour.trips[v].pois = <<hotel, hotel>>
            /\ tour.trips[v].duration = 0
            /\ tour.trips[v].distance = 0
        /\ tour.duration
            = SumOver([v \in 1..num_days |->
                        IF v \in EmptyDays THEN 0 ELSE tour.trips[v].duration],
                      1, num_days)

\* C8 witness: a solved combination with more days than PoIs, a day that
\* visits something and takes time, and an empty day.
C8_Witness ==
    /\ assignment.solved
    /\ num_days > Len(t_pois) - 1
    /\ \E v \in 1..num_days : v \notin EmptyDays /\ tour.trips[v].duration > 0
    /\ \E v \in 1..num_days : v \in EmptyDays

\* C9: the Tour decoded from an assignment has num_days Trips; each Trip is
\* the depot, then that vehicle's nodes in route order, then the depot; and
\* every non-depot PoI is in exactly one place of exactly one Trip.
C9_DecodingKeepsPartition ==
    assignment.solved =>
        /\ Len(tour.trips) = num_days
        /\ t_pois[1] = hotel
        /\ \A v \in 1..num_days :
            LET route == assignment.routes[v]
            IN  tour.trips[v].pois
                    = <<hotel>> \o [k \in 1..Len(route) |-> t_pois[route[k] + 1]]
                      \o <<hotel>>
        /\ \A i \in 2..Len(t_pois) :
            Cardinality({vk \in {<<v, k>> : v \in 1..Len(tour.trips), k \in 1..(Len(t_pois) + 1)} :
                            /\ vk[2] <= Len(tour.trips[vk[1]].pois)
                            /\ oid(tour.trips[vk[1]].pois[vk[2]]) = oid(t_pois[i])}) = 1

\* C9 witness: a solved combination in which one vehicle visits two PoIs or
\* more and another vehicle visits one at least.
C9_Witness ==
    /\ assignment.solved
    /\ \E v, w \in 1..num_days :
        v # w /\ Len(assignment.routes[v]) >= 2 /\ Len(assignment.routes[w]) >= 1

\* Whether every leg of vehicle v's path has a distance other than 0.
AllLegsNonZero(v) ==
    \A k \in 1..(Len(PathOf(v)) - 1) :
        distance(t_pois[PathOf(v)[k] + 1], t_pois[PathOf(v)[k + 1] + 1]) # 0

\* C10: a Trip of a non-empty route whose legs all have a non-zero distance
\* takes the legs' travel times plus the whole visiting time of each PoI
\* visited plus 30 minutes for the depot; a Trip of an empty route takes 0.
C10_TripDurationAmortized ==
    assignment.solved =>
        \A v \in 1..num_days :
            LET path == PathOf(v)
                route == assignment.routes[v]
                leg == [k \in 1..(Len(path) - 1) |->
                          LET dist == distance(t_pois[path[k] + 1], t_pois[path[k + 1] + 1])
                          IN  ClaimTravel(dist, IF dist <= 2 * DistScale THEN 50 ELSE 6)]
                visit == [k \in 1..Len(route) |->
                            ClaimVisiting(t_pois[route[k] + 1]) * DurScale]
            IN  /\ (route # <<>> /\ AllLegsNonZero(v)) =>
                        tour.trips[v].duration
                            = SumOver(leg, 1, Len(path) - 1)
                              + SumOver(visit, 1, Len(route))
                              + 30 * DurScale
                /\ route = <<>> => tour.trips[v].duration = 0

\* C10 witness: a solved combination with a route of two PoIs or more whose
\* legs are all non-zero, and an empty route.
C10_Witness ==
    /\ assignment.solved
    /\ \E v \in 1..num_days : Len(assignment.routes[v]) >= 2 /\ AllLegsNonZero(v)
    /\ \E v \in 1..num_days : assignment.routes[v] = <<>>

====
